---- MODULE Spec2Model ----
(***************************************************************************)
(* Verification development for mindface/recognition/eval.py: the batched  *)
(* embedding harness test(), the fold splitter LFold, calculate_accuracy,  *)
(* calculate_val_far, calculate_roc and calculate_val.                     *)
(*                                                                         *)
(* numpy arrays are functions over 0..n-1 (the source's 0-based indices).  *)
(* Reals are exact rationals [num, den]; distances and grid thresholds are *)
(* integers in a common unit (one tenth of the source's unit).             *)
(***************************************************************************)
EXTENDS Integers, Sequences, FiniteSets, TLC

\* ---- bounds of the model ------------------------------------------------
MaxN == 6
MaxB == 4
MaxPairs == 3
MaxFolds == 3
MaxTargets == 2

\* ---- numpy / python helpers ---------------------------------------------
Min2(a, b) == IF a < b THEN a ELSE b
Max2(a, b) == IF a > b THEN a ELSE b

\* len(a), a.shape[0]
len(a) == Cardinality(DOMAIN a)

\* the empty array
Empty == [i \in {} |-> 0]

\* np.arange(n)
arange(n) == [i \in 0..(n - 1) |-> i]

\* python's normalisation of a slice bound against an array of length n:
\* a negative bound counts from the end, then the bound is clamped to 0..n
SliceBound(i, n) == IF i < 0 THEN Max2(i + n, 0) ELSE Min2(i, n)

\* a[start:stop]
PySlice(a, start, stop) ==
    LET s == SliceBound(start, len(a))
        e == SliceBound(stop, len(a))
    IN  [j \in 0..(e - s - 1) |-> a[s + j]]

\* a[start:stop, :] = rhs, numpy's rules: the right-hand side must have as many
\* rows as the slice or exactly one row (broadcast); anything else raises
\* ValueError ("could not broadcast input array").  The right-hand side is read
\* before the write (numpy copies overlapping operands).
SetSlice(a, start, stop, rhs) ==
    LET s == SliceBound(start, len(a))
        e == SliceBound(stop, len(a))
        rows == Max2(e - s, 0)
    IN  IF len(rhs) = rows
        THEN [raises |-> FALSE,
              arr |-> [i \in DOMAIN a |-> IF i >= s /\ i < e THEN rhs[i - s] ELSE a[i]]]
        ELSE IF len(rhs) = 1
        THEN [raises |-> FALSE,
              arr |-> [i \in DOMAIN a |-> IF i >= s /\ i < e THEN rhs[0] ELSE a[i]]]
        ELSE [raises |-> TRUE, arr |-> a]

\* a[idx] for an index array idx (fancy indexing)
Take(a, idx) == [j \in DOMAIN idx |-> a[idx[j]]]

\* ---- the embedding provider and the dataset -----------------------------
\* image i of the pass over data_list[flip]
Image(flip, i) == [flip |-> flip, idx |-> i]

\* data_list[flip]: the N images of one pass
Data(flip, n) == [i \in 0..(n - 1) |-> Image(flip, i)]

\* the provider's embedding of one image: an opaque value that names the image
Emb(img) == [of |-> img]

\* backbone(ms.Tensor(img)).asnumpy(): one embedding per image fed, same order
\* (the pixel rescaling ((x/255)-0.5)/0.5 is elementwise and keeps the order)
backbone(b_data) == [j \in DOMAIN b_data |-> Emb(b_data[j])]

\* ---- exact rationals ------------------------------------------------------
RECURSIVE GCD(_, _)
GCD(a, b) == IF b = 0 THEN a ELSE GCD(b, a % b)

Abs(n) == IF n < 0 THEN 0 - n ELSE n

\* n/d in lowest terms, d > 0
Rat(n, d) == LET g == GCD(Abs(n), d) IN [num |-> n \div g, den |-> d \div g]

Zero == Rat(0, 1)
One == Rat(1, 1)
RLess(a, b) == a.num * b.den < b.num * a.den
RLeq(a, b) == a.num * b.den <= b.num * a.den
RAdd(a, b) == Rat(a.num * b.den + b.num * a.den, a.den * b.den)
RSub(a, b) == Rat(a.num * b.den - b.num * a.den, a.den * b.den)
RMul(a, b) == Rat(a.num * b.num, a.den * b.den)
\* a / b for b > 0
RDiv(a, b) == Rat(a.num * b.den, a.den * b.num)

\* ---- numpy reductions ------------------------------------------------------
logical_and(a, b) == [i \in DOMAIN a |-> a[i] /\ b[i]]
logical_not(a) == [i \in DOMAIN a |-> ~a[i]]

\* np.sum of a boolean array
RECURSIVE CountFrom(_, _)
CountFrom(a, i) == IF i >= len(a) THEN 0 ELSE (IF a[i] THEN 1 ELSE 0) + CountFrom(a, i + 1)
np_sum(a) == CountFrom(a, 0)

\* np.sum / np.mean of an array of reals
RECURSIVE RSumFrom(_, _)
RSumFrom(a, i) == IF i >= len(a) THEN Zero ELSE RAdd(a[i], RSumFrom(a, i + 1))
np_mean(a) == RDiv(RSumFrom(a, 0), Rat(len(a), 1))

\* np.std(a) squared: the mean of the squared deviations from the mean
np_var(a) ==
    LET m == np_mean(a)
    IN  np_mean([i \in DOMAIN a |-> RMul(RSub(a[i], m), RSub(a[i], m))])

\* np.max of a non-empty array of reals
RECURSIVE RMaxFrom(_, _, _)
RMaxFrom(a, i, best) ==
    IF i >= len(a) THEN best
    ELSE RMaxFrom(a, i + 1, IF RLess(best, a[i]) THEN a[i] ELSE best)
np_max(a) == RMaxFrom(a, 1, a[0])

RECURSIVE RMinFrom(_, _, _)
RMinFrom(a, i, best) ==
    IF i >= len(a) THEN best
    ELSE RMinFrom(a, i + 1, IF RLess(a[i], best) THEN a[i] ELSE best)
np_min(a) == RMinFrom(a, 1, a[0])

\* np.argmax of a non-empty array of reals: a left-to-right scan that moves
\* only on a strictly greater value
RECURSIVE ArgmaxFrom(_, _, _)
ArgmaxFrom(a, i, best) ==
    IF i >= len(a) THEN best
    ELSE ArgmaxFrom(a, i + 1, IF RLess(a[best], a[i]) THEN i ELSE best)
\* an argmax that keeps the last of several maxima
RECURSIVE ArgmaxLastFrom(_, _, _)
ArgmaxLastFrom(a, i, best) ==
    IF i >= len(a) THEN best
    ELSE ArgmaxLastFrom(a, i + 1, IF RLeq(a[best], a[i]) THEN i ELSE best)
np_argmax_last(a) == ArgmaxLastFrom(a, 1, 0)

np_argmax(a) == ArgmaxFrom(a, 1, 0)

\* np.zeros(n)
zeros(n) == [i \in 0..(n - 1) |-> Zero]

\* ---- distances (calculate_roc lines 63-64, calculate_val lines 136-137) ----
RECURSIVE SumSq(_, _, _)
SumSq(u, v, i) ==
    IF i > Len(u) THEN 0 ELSE (u[i] - v[i]) * (u[i] - v[i]) + SumSq(u, v, i + 1)

\* np.sum(np.square(np.subtract(embeddings1, embeddings2)), 1)
Distances(e1, e2) == [i \in DOMAIN e1 |-> SumSq(e1[i], e2[i], 1)]

\* np.less written as np.greater
np_greater(dist, threshold) == [i \in DOMAIN dist |-> RLess(threshold, Rat(dist[i], 1))]

\* np.less written as np.less_equal
np_less_equal(dist, threshold) == [i \in DOMAIN dist |-> RLeq(Rat(dist[i], 1), threshold)]

\* np.less(dist, threshold)
np_less(dist, threshold) == [i \in DOMAIN dist |-> RLess(Rat(dist[i], 1), threshold)]

\* ---- calculate_accuracy ----------------------------------------------------
calculate_accuracy(threshold, dist, actual_issame) ==
    LET predict_issame == np_less(dist, threshold)
        tp == np_sum(logical_and(predict_issame, actual_issame))
        fp == np_sum(logical_and(predict_issame, logical_not(actual_issame)))
        tn == np_sum(logical_and(logical_not(predict_issame), logical_not(actual_issame)))
        fn == np_sum(logical_and(logical_not(predict_issame), actual_issame))
    IN  [tpr |-> IF tp + fn = 0 THEN Zero ELSE Rat(tp, tp + fn),
         fpr |-> IF fp + tn = 0 THEN Zero ELSE Rat(fp, fp + tn),
         acc |-> Rat(tp + tn, len(dist))]

\* ---- calculate_val_far -----------------------------------------------------
\* float(x) / float(0) raises ZeroDivisionError; val is computed before far
calculate_val_far(threshold, dist, actual_issame) ==
    LET predict_issame == np_less(dist, threshold)
        true_accept == np_sum(logical_and(predict_issame, actual_issame))
        false_accept == np_sum(logical_and(predict_issame, logical_not(actual_issame)))
        n_same == np_sum(actual_issame)
        n_diff == np_sum(logical_not(actual_issame))
    IN  IF n_same = 0 \/ n_diff = 0
        THEN [raises |-> TRUE, val |-> Zero, far |-> Zero]
        ELSE [raises |-> FALSE, val |-> Rat(true_accept, n_same), far |-> Rat(false_accept, n_diff)]

\* ---- LFold -----------------------------------------------------------------
\* sklearn's KFold(n_splits, shuffle=False).split(indices): ValueError when
\* n_splits exceeds the number of samples; otherwise n_splits contiguous test
\* groups, the first n % n_splits of them one longer, each with the remaining
\* indices in ascending order as its train set
FoldStart(n, k, i) == i * (n \div k) + Min2(i, n % k)

KFold_folds(n_splits, indices) ==
    LET n == len(indices)
        fold(i) ==
            LET start == FoldStart(n, n_splits, i)
                stop == FoldStart(n, n_splits, i + 1)
                size == stop - start
            IN  [train_set |-> [j \in 0..(n - size - 1) |-> IF j < start THEN j ELSE j + size],
                 test_set |-> [j \in 0..(size - 1) |-> start + j]]
    IN  [i \in 0..(n_splits - 1) |-> fold(i)]

KFold_split(n_splits, indices) ==
    IF n_splits > len(indices)
    THEN [raises |-> TRUE, folds |-> Empty]
    ELSE [raises |-> FALSE, folds |-> KFold_folds(n_splits, indices)]

\* a splitter that k-folds only from three folds up
split_from_three(n_splits, indices) ==
    IF n_splits > 2
    THEN KFold_split(n_splits, indices)
    ELSE [raises |-> FALSE,
          folds |-> [i \in {0} |-> [train_set |-> indices, test_set |-> indices]]]

\* a splitter that partitions without comparing the fold count to the sample count
split_unchecked(n_splits, indices) ==
    IF n_splits > 1
    THEN [raises |-> FALSE, folds |-> KFold_folds(n_splits, indices)]
    ELSE [raises |-> FALSE,
          folds |-> [i \in {0} |-> [train_set |-> indices, test_set |-> indices]]]

\* LFold(n_splits, shuffle=False).split(indices)
split(n_splits, indices) ==
    IF n_splits > 1
    THEN KFold_split(n_splits, indices)
    ELSE [raises |-> FALSE,
          folds |-> [i \in {0} |-> [train_set |-> indices, test_set |-> indices]]]

VARIABLES
    proc,             \* the entry point this run executes
    pc,               \* position in it
    \* ---- test()
    data_n,           \* data.shape[0]
    batch_size,
    pass,             \* index into data_list of the pass in progress
    ba,
    embeddings,       \* the pass's embeddings variable ("None" before the first batch)
    embeddings_list,
    calls,            \* the b_data of every provider call of the pass in progress
    \* ---- calculate_roc() / calculate_val()
    embeddings1,
    embeddings2,
    actual_issame,
    thresholds,
    nrof_folds,
    far_target,
    dist,
    fold_idx,         \* number of folds the loop has completed
    tprs,
    fprs,
    accuracy,
    val,
    far,
    fold_log,         \* the locals of every completed fold, in order
    result,           \* the returned tuple
    \* ---- face_eval()
    caller,           \* "face_eval" while test() runs on its behalf
    target,           \* target.split(',')
    files,            \* the .bin files under eval_url: name -> number of images
    ver_list,
    ver_name_list,
    fe_i,             \* index of the loop in progress (over target, then over ver_list)
    reports           \* the dataset names whose results were printed, in order

hvars == <<data_n, batch_size, pass, ba, embeddings, embeddings_list, calls>>
inputs == <<embeddings1, embeddings2, actual_issame, thresholds, nrof_folds, far_target>>
evars == <<inputs, dist, fold_idx, tprs, fprs, accuracy, val, far, fold_log, result>>
fvars == <<caller, target, files, ver_list, ver_name_list, fe_i, reports>>
vars == <<proc, pc, hvars, evars, fvars>>

None == "None"

\* the variables of the entry points this run does not execute
HarnessIdle ==
    /\ data_n = 0 /\ batch_size = 0 /\ pass = 0 /\ ba = 0
    /\ embeddings = None /\ embeddings_list = <<>> /\ calls = <<>>

EvalLocalsFresh ==
    /\ dist = Empty /\ fold_idx = 0
    /\ tprs = Empty /\ fprs = Empty /\ accuracy = Empty
    /\ val = Empty /\ far = Empty
    /\ fold_log = <<>> /\ result = None

EvalIdle ==
    /\ embeddings1 = Empty /\ embeddings2 = Empty /\ actual_issame = Empty
    /\ thresholds = Empty /\ nrof_folds = 0 /\ far_target = None
    /\ EvalLocalsFresh

FaceEvalIdle ==
    /\ caller = None /\ target = <<>> /\ files = Empty
    /\ ver_list = <<>> /\ ver_name_list = <<>> /\ fe_i = 0 /\ reports = <<>>

\* test(data_set, backbone, batch_size): entry, before the first pass
InitTest ==
    /\ proc = "test"
    /\ pc = "loop"
    /\ data_n \in 1..MaxN
    /\ batch_size \in 1..MaxB
    /\ pass = 0
    /\ ba = 0
    /\ embeddings = None
    /\ embeddings_list = <<>>
    /\ calls = <<>>
    /\ EvalIdle
    /\ FaceEvalIdle

\* the rows the source writes back after a provider call
BatchStore(out, a, b, size, count) == SetSlice(out, a, b, PySlice(out, size - count, len(out)))

\* a loop that calls the provider again after it has raised
BatchReadyRetry == pc \in {"loop", "ProviderError"}

\* the while loop takes its next iteration: nothing in test() catches an
\* exception, so it does so only while none has been raised
BatchReady == pc = "loop"

\* one iteration of `while ba < data.shape[0]`; the provider call (line 248)
\* either raises, which ends test(), or returns the batch's embeddings
test_batch ==
    /\ proc = "test" /\ BatchReady
    /\ ba < data_n
    /\ LET bb == Min2(ba + batch_size, data_n)
           count == bb - ba
           b_data == PySlice(Data(pass, data_n), bb - batch_size, bb)
           net_out == backbone(b_data)
           \* `embeddings = net_out.asnumpy()` rebinds the pass's matrix to the
           \* batch output, so `embeddings is None` never holds afterwards
           st == BatchStore(net_out, ba, bb, batch_size, count)
       IN  /\ calls' = Append(calls, b_data)
           /\ \/ /\ pc' = "ProviderError"
                 /\ UNCHANGED <<embeddings, ba>>
              \/ IF st.raises
                 THEN /\ pc' = "ValueError"
                      /\ embeddings' = net_out
                      /\ ba' = ba
                 ELSE /\ pc' = "loop"
                      /\ embeddings' = st.arr
                      /\ ba' = bb
    /\ UNCHANGED <<proc, data_n, batch_size, pass, embeddings_list, evars, fvars>>

\* the end of one pass: embeddings_list.append(embeddings), next data in data_list
test_pass_end ==
    /\ proc = "test" /\ pc = "loop"
    /\ ba >= data_n
    /\ embeddings_list' = Append(embeddings_list, embeddings)
    /\ IF pass = 0
       THEN /\ pass' = 1
            /\ ba' = 0
            /\ embeddings' = None
            /\ calls' = <<>>
            /\ pc' = pc
       ELSE /\ pc' = "evaluate"
            /\ UNCHANGED <<pass, ba, embeddings, calls>>
    /\ UNCHANGED <<proc, data_n, batch_size, evars, fvars>>

\* lines 258-280: the norms, the two evaluate() calls and the return.  evaluate()
\* splits the matrix into rows 0::2 and 1::2 and calculate_roc asserts that the
\* two halves have the same number of rows.  Past the assertion the call
\* returns or fails as calculate_roc and calculate_val do on the embeddings'
\* distances and the labels (modelled below on their own inputs): either
\* outcome is possible here
test_evaluate ==
    /\ proc = "test" /\ pc = "evaluate"
    /\ LET rows == len(embeddings_list[1])
           rows1 == (rows + 1) \div 2
           rows2 == rows \div 2
       IN  IF rows1 = rows2
           THEN pc' \in {"returned", "EvaluateError"}
           ELSE pc' = "AssertionError"
    /\ UNCHANGED <<proc, hvars, evars, fvars>>

NextTest == test_batch \/ test_pass_end \/ test_evaluate

SpecTest == InitTest /\ [][NextTest]_vars

\* ---- face_eval (lines 341-357) ----------------------------------------------
\* dataset names a target list can hold
DatasetNames == {"lfw", "cfp_fp"}

\* target lists: 1..MaxTargets names, repetitions allowed
TargetLists == UNION {[1..n -> DatasetNames] : n \in 1..MaxTargets}

\* load_bin returns two images per label, so a dataset has an even image count
DatasetSizes == {n \in 1..MaxN : n % 2 = 0}

\* the state of eval_url: the names that have a .bin file, with their image counts
FileSystems == UNION {[S -> DatasetSizes] : S \in SUBSET DatasetNames}

\* os.path.exists(os.path.join(eval_url, name + ".bin"))
path_exists(name) == name \in DOMAIN files

\* face_eval after the model is loaded (line 341): empty lists, first name next
InitFaceEval ==
    /\ proc = "face_eval"
    /\ pc = "load"
    /\ caller = None
    /\ target \in TargetLists
    /\ files \in FileSystems
    /\ batch_size \in 1..MaxB
    /\ ver_list = <<>>
    /\ ver_name_list = <<>>
    /\ fe_i = 0
    /\ reports = <<>>
    /\ data_n = 0 /\ pass = 0 /\ ba = 0
    /\ embeddings = None /\ embeddings_list = <<>> /\ calls = <<>>
    /\ EvalIdle

\* one iteration of `for name in target.split(',')` (lines 343-349), and the
\* move to the second loop after the last name (line 351)
face_eval_load ==
    /\ proc = "face_eval" /\ pc = "load"
    /\ IF fe_i < Len(target)
       THEN LET name == target[fe_i + 1]
            IN  /\ IF path_exists(name)
                   THEN /\ ver_list' = Append(ver_list, files[name])
                        /\ ver_name_list' = Append(ver_name_list, name)
                   ELSE UNCHANGED <<ver_list, ver_name_list>>
                /\ fe_i' = fe_i + 1
                /\ pc' = pc
       ELSE /\ fe_i' = 0
            /\ pc' = "eval"
            /\ UNCHANGED <<ver_list, ver_name_list>>
    /\ UNCHANGED <<proc, hvars, evars, caller, target, files, reports>>

\* `for i in range(length)`: the call test(ver_list[i], model, batch_size, nfolds)
\* (line 353), or the end of face_eval after the last dataset
face_eval_call ==
    /\ proc = "face_eval" /\ pc = "eval"
    /\ IF fe_i < Len(ver_list)
       THEN /\ proc' = "test"
            /\ pc' = "loop"
            /\ caller' = "face_eval"
            /\ data_n' = ver_list[fe_i + 1]
            /\ pass' = 0
            /\ ba' = 0
            /\ embeddings' = None
            /\ embeddings_list' = <<>>
            /\ calls' = <<>>
       ELSE /\ pc' = "done"
            /\ UNCHANGED <<proc, caller, data_n, pass, ba, embeddings, embeddings_list, calls>>
    /\ UNCHANGED <<batch_size, evars, target, files, ver_list, ver_name_list, fe_i, reports>>

\* test() has returned to face_eval: the three prints (lines 355-357), next i.
\* An exception raised in test() is not caught here: it ends face_eval
face_eval_report ==
    /\ proc = "test" /\ pc = "returned" /\ caller = "face_eval"
    /\ reports' = Append(reports, ver_name_list[fe_i + 1])
    /\ fe_i' = fe_i + 1
    /\ proc' = "face_eval"
    /\ pc' = "eval"
    /\ caller' = None
    /\ UNCHANGED <<hvars, evars, target, files, ver_list, ver_name_list>>

NextFaceEval ==
    \/ face_eval_load
    \/ face_eval_call
    \/ face_eval_report
    \/ test_batch
    \/ test_pass_end
    \/ test_evaluate

SpecFaceEval == InitFaceEval /\ [][NextFaceEval]_vars
\* ---- inputs of calculate_roc / calculate_val --------------------------------
\* a python list / numpy array from a TLA+ tuple
Arr(seq) == [i \in 0..(Len(seq) - 1) |-> seq[i + 1]]

\* (embeddings1[i], embeddings2[i]) with squared distances 2, 30 and 35
PairVals ==
    { << <<1, 2, 0>>, <<0, 1, 0>> >>,
      << <<5, 2, 1>>, <<0, 0, 0>> >>,
      << <<0, 0, 0>>, <<5, 3, 1>> >> }

\* ascending threshold grids with a uniform step, starting at 0
GridA == Arr(<<0, 10, 20, 30, 40>>)
GridB == Arr(<<0, 15, 30>>)
Grids == {GridA, GridB}

FoldCounts == (0 - 1)..MaxFolds

\* Scenario A: distances [0.1, 0.2, 3.0, 3.5], labels [T, T, F, F], grid [0,1,2,3,4], k = 1
ScenarioA_pairs ==
    Arr(<< << <<1, 0, 0>>, <<0, 0, 0>> >>,
           << <<1, 2, 0>>, <<0, 1, 0>> >>,
           << <<5, 2, 1>>, <<0, 0, 0>> >>,
           << <<0, 0, 0>>, <<5, 3, 1>> >> >>)
ScenarioA_labels == Arr(<<TRUE, TRUE, FALSE, FALSE>>)

IsScenarioA ==
    /\ embeddings1 = [i \in DOMAIN ScenarioA_pairs |-> ScenarioA_pairs[i][1]]
    /\ embeddings2 = [i \in DOMAIN ScenarioA_pairs |-> ScenarioA_pairs[i][2]]
    /\ actual_issame = ScenarioA_labels
    /\ thresholds = GridA
    /\ nrof_folds = 1

\* the arguments of one call: n pairs, their labels, a grid and a fold count
DrawInputs ==
    \/ \E n \in 1..MaxPairs :
         \E pairs \in [0..(n - 1) -> PairVals] :
           /\ embeddings1 = [i \in 0..(n - 1) |-> pairs[i][1]]
           /\ embeddings2 = [i \in 0..(n - 1) |-> pairs[i][2]]
           /\ actual_issame \in [0..(n - 1) -> BOOLEAN]
           /\ thresholds \in Grids
           /\ nrof_folds \in FoldCounts
    \/ IsScenarioA

InitRoc ==
    /\ proc = "calculate_roc"
    /\ pc = "start"
    /\ DrawInputs
    /\ far_target = None
    /\ EvalLocalsFresh
    /\ HarnessIdle
    /\ FaceEvalIdle

\* nrof_pairs = min(len(actual_issame), embeddings1.shape[0])
nrof_pairs == Min2(len(actual_issame), len(embeddings1))
nrof_thresholds == len(thresholds)

\* k_fold.split(indices), consumed fold by fold by the for loop
Folds == split(nrof_folds, arange(nrof_pairs))

\* ---- calculate_roc ----------------------------------------------------------
\* lines 51-64; np.zeros of a negative dimension raises ValueError
calculate_roc_begin ==
    /\ proc = "calculate_roc" /\ pc = "start"
    /\ IF nrof_folds < 0
       THEN /\ pc' = "ValueError"
            /\ UNCHANGED <<tprs, fprs, accuracy, dist>>
       ELSE /\ pc' = "folds"
            /\ tprs' = [f \in 0..(nrof_folds - 1) |-> zeros(nrof_thresholds)]
            /\ fprs' = [f \in 0..(nrof_folds - 1) |-> zeros(nrof_thresholds)]
            /\ accuracy' = zeros(nrof_folds)
            /\ dist' = Distances(embeddings1, embeddings2)
    /\ UNCHANGED <<proc, hvars, inputs, fold_idx, val, far, fold_log, result, fvars>>

\* the locals of one fold of calculate_roc (lines 82-93)
RocFold(train_set, test_set) ==
    LET acc_train == [t \in DOMAIN thresholds |->
                        calculate_accuracy(Rat(thresholds[t], 1), Take(dist, train_set),
                                           Take(actual_issame, train_set)).acc]
        best_threshold_index == np_argmax(acc_train)
        curve == [t \in DOMAIN thresholds |->
                    calculate_accuracy(Rat(thresholds[t], 1), Take(dist, test_set),
                                       Take(actual_issame, test_set))]
    IN  [train_set |-> train_set,
         test_set |-> test_set,
         acc_train |-> acc_train,
         best_threshold_index |-> best_threshold_index,
         tprs |-> [t \in DOMAIN thresholds |-> curve[t].tpr],
         fprs |-> [t \in DOMAIN thresholds |-> curve[t].fpr],
         accuracy |-> calculate_accuracy(Rat(thresholds[best_threshold_index], 1),
                                         Take(dist, test_set),
                                         Take(actual_issame, test_set)).acc]

\* one iteration of the loop over the folds (lines 66-93); the splitter raises
\* when it is first asked for a fold, and a write to row fold_idx of an array
\* with no such row raises IndexError
calculate_roc_fold ==
    /\ proc = "calculate_roc" /\ pc = "folds"
    /\ \/ /\ Folds.raises
          /\ pc' = "ValueError"
          /\ UNCHANGED <<tprs, fprs, accuracy, fold_idx, fold_log>>
       \/ /\ ~Folds.raises
          /\ fold_idx < len(Folds.folds)
          /\ LET f == RocFold(Folds.folds[fold_idx].train_set, Folds.folds[fold_idx].test_set)
             IN  IF fold_idx >= nrof_folds
                 THEN /\ pc' = "IndexError"
                      /\ UNCHANGED <<tprs, fprs, accuracy, fold_idx, fold_log>>
                 ELSE /\ pc' = pc
                      /\ tprs' = [tprs EXCEPT ![fold_idx] = f.tprs]
                      /\ fprs' = [fprs EXCEPT ![fold_idx] = f.fprs]
                      /\ accuracy' = [accuracy EXCEPT ![fold_idx] = f.accuracy]
                      /\ fold_idx' = fold_idx + 1
                      /\ fold_log' = Append(fold_log, f)
    /\ UNCHANGED <<proc, hvars, inputs, dist, val, far, result, fvars>>

\* np.mean(a, 0) written as np.sum(a, 0)
sum_axis0(a) == [t \in DOMAIN thresholds |-> RSumFrom([f \in DOMAIN a |-> a[f][t]], 0)]

\* np.mean(a, 0): the column means of a matrix with at least one row
mean_axis0(a) == [t \in DOMAIN thresholds |-> np_mean([f \in DOMAIN a |-> a[f][t]])]

\* lines 95-97
calculate_roc_return ==
    /\ proc = "calculate_roc" /\ pc = "folds"
    /\ ~Folds.raises
    /\ fold_idx = len(Folds.folds)
    /\ pc' = "returned"
    /\ result' = [tpr |-> mean_axis0(tprs), fpr |-> mean_axis0(fprs), accuracy |-> accuracy]
    /\ UNCHANGED <<proc, hvars, inputs, dist, fold_idx, tprs, fprs, accuracy, val, far, fold_log, fvars>>

NextRoc == calculate_roc_begin \/ calculate_roc_fold \/ calculate_roc_return

SpecRoc == InitRoc /\ [][NextRoc]_vars
\* ---- calculate_val ----------------------------------------------------------
\* target false-accept rates: evaluate() passes 1e-3 (line 196)
Targets == {Rat(1, 1000), Rat(1, 2)}

InitVal ==
    /\ proc = "calculate_val"
    /\ pc = "start"
    /\ DrawInputs
    /\ far_target \in Targets
    /\ EvalLocalsFresh
    /\ HarnessIdle
    /\ FaceEvalIdle

\* lines 127-138
calculate_val_begin ==
    /\ proc = "calculate_val" /\ pc = "start"
    /\ IF nrof_folds < 0
       THEN /\ pc' = "ValueError"
            /\ UNCHANGED <<val, far, dist>>
       ELSE /\ pc' = "folds"
            /\ val' = zeros(nrof_folds)
            /\ far' = zeros(nrof_folds)
            /\ dist' = Distances(embeddings1, embeddings2)
    /\ UNCHANGED <<proc, hvars, inputs, fold_idx, tprs, fprs, accuracy, fold_log, result, fvars>>

\* interpolate.interp1d(x, y, kind='slinear')(x_new) for a non-decreasing x (the
\* FAR values along an ascending grid) and integer y.  x_new outside
\* [min x, max x] raises ValueError (bounds_error).  Within the range the value
\* is the linear interpolant between neighbouring points.  When x holds a
\* repeated value the outcome depends on the scipy build: make_interp_spline
\* either rejects x (ValueError: "Expect x to not have duplicates") or builds
\* the degree-1 spline through the points, whose value at a repeated abscissa
\* is the y of one of the points that share it; all of these are outcomes.
interp1d(x, y, x_new) ==
    LET ok(v) == [raises |-> FALSE, value |-> v]
        raise == [raises |-> TRUE, value |-> Zero]
        lin(j) == RAdd(Rat(y[j], 1),
                       RDiv(RMul(RSub(x_new, x[j]), Rat(y[j + 1] - y[j], 1)),
                            RSub(x[j + 1], x[j])))
        values == {Rat(y[j], 1) : j \in {i \in DOMAIN x : x[i] = x_new}}
                  \cup {lin(j) : j \in {i \in DOMAIN x : /\ i + 1 \in DOMAIN x
                                                         /\ RLess(x[i], x_new)
                                                         /\ RLess(x_new, x[i + 1])}}
        dup == \E i, j \in DOMAIN x : i # j /\ x[i] = x[j]
    IN  IF RLess(x_new, np_min(x)) \/ RLess(np_max(x), x_new)
        THEN {raise}
        ELSE IF dup THEN {raise} \cup {ok(v) : v \in values}
        ELSE {ok(v) : v \in values}

\* far_train of one fold (lines 143-146): the training FAR at every grid
\* threshold, or a ZeroDivisionError from calculate_val_far
FarTrain(train_set) ==
    LET r == [t \in DOMAIN thresholds |->
                calculate_val_far(Rat(thresholds[t], 1), Take(dist, train_set),
                                  Take(actual_issame, train_set))]
    IN  [raises |-> \E t \in DOMAIN thresholds : r[t].raises,
         far_train |-> [t \in DOMAIN thresholds |-> r[t].far]]

\* lines 147-151: the outcomes of the threshold selection of one fold
SelectThreshold(far_train) ==
    IF RLeq(far_target, np_max(far_train))
    THEN {[raises |-> o.raises, threshold |-> o.value, fallback |-> FALSE] :
            o \in interp1d(far_train, thresholds, far_target)}
    ELSE {[raises |-> FALSE, threshold |-> Zero, fallback |-> TRUE]}

\* one iteration of the loop over the folds (lines 140-154)
calculate_val_fold ==
    /\ proc = "calculate_val" /\ pc = "folds"
    /\ \/ /\ Folds.raises
          /\ pc' = "ValueError"
          /\ UNCHANGED <<val, far, fold_idx, fold_log>>
       \/ /\ ~Folds.raises
          /\ fold_idx < len(Folds.folds)
          /\ LET train_set == Folds.folds[fold_idx].train_set
                 test_set == Folds.folds[fold_idx].test_set
                 ft == FarTrain(train_set)
             IN  IF ft.raises
                 THEN /\ pc' = "ZeroDivisionError"
                      /\ UNCHANGED <<val, far, fold_idx, fold_log>>
                 ELSE \E sel \in SelectThreshold(ft.far_train) :
                        LET r == calculate_val_far(sel.threshold, Take(dist, test_set),
                                                   Take(actual_issame, test_set))
                            f == [train_set |-> train_set,
                                  test_set |-> test_set,
                                  far_train |-> ft.far_train,
                                  threshold |-> sel.threshold,
                                  fallback |-> sel.fallback]
                        IN  IF sel.raises
                            THEN /\ pc' = "ValueError"
                                 /\ UNCHANGED <<val, far, fold_idx, fold_log>>
                            ELSE IF r.raises
                            THEN /\ pc' = "ZeroDivisionError"
                                 /\ fold_log' = Append(fold_log, f)
                                 /\ UNCHANGED <<val, far, fold_idx>>
                            ELSE IF fold_idx >= nrof_folds
                            THEN /\ pc' = "IndexError"
                                 /\ fold_log' = Append(fold_log, f)
                                 /\ UNCHANGED <<val, far, fold_idx>>
                            ELSE /\ pc' = pc
                                 /\ val' = [val EXCEPT ![fold_idx] = r.val]
                                 /\ far' = [far EXCEPT ![fold_idx] = r.far]
                                 /\ fold_idx' = fold_idx + 1
                                 /\ fold_log' = Append(fold_log, f)
    /\ UNCHANGED <<proc, hvars, inputs, dist, tprs, fprs, accuracy, result, fvars>>

\* lines 156-159; val_var is the square of the returned val_std
calculate_val_return ==
    /\ proc = "calculate_val" /\ pc = "folds"
    /\ ~Folds.raises
    /\ fold_idx = len(Folds.folds)
    /\ pc' = "returned"
    /\ result' = [val_mean |-> np_mean(val), val_var |-> np_var(val), far_mean |-> np_mean(far)]
    /\ UNCHANGED <<proc, hvars, inputs, dist, fold_idx, tprs, fprs, accuracy, val, far, fold_log, fvars>>

NextVal == calculate_val_begin \/ calculate_val_fold \/ calculate_val_return

SpecVal == InitVal /\ [][NextVal]_vars

\* ---- the whole module: any one entry point ----------------------------------
Init == InitTest \/ InitRoc \/ InitVal \/ InitFaceEval

Next ==
    \/ test_batch
    \/ test_pass_end
    \/ test_evaluate
    \/ calculate_roc_begin
    \/ calculate_roc_fold
    \/ calculate_roc_return
    \/ calculate_val_begin
    \/ calculate_val_fold
    \/ calculate_val_return
    \/ face_eval_load
    \/ face_eval_call
    \/ face_eval_report

Spec == Init /\ [][Next]_vars
\* ==== claims about test() ====================================================
CeilDiv(a, b) == (a + b - 1) \div b

\* the while loop of the pass in progress has run to its end
PassComplete == proc = "test" /\ pc \in {"loop", "evaluate"} /\ ba >= data_n

\* C1 (as claimed): when N is not a multiple of B, a pass over the dataset
\* completes -- the batch write-back never raises -- after exactly ceil(N/B)
\* provider calls, and the matrix kept for the pass has exactly N rows.  Stated
\* for N > B, the shape of the claim's example (N = 70, B = 32).
C1_PassKeepsNRows ==
    (proc = "test" /\ data_n > batch_size /\ data_n % batch_size # 0) =>
        /\ pc # "ValueError"
        /\ PassComplete => /\ Len(calls) = CeilDiv(data_n, batch_size)
                           /\ len(embeddings) = data_n

\* C2 (as claimed): every provider call of test() passes exactly batch_size
\* images, for every N >= 1 and B >= 1.
C2_FullBatches ==
    proc = "test" => \A c \in 1..Len(calls) : len(calls[c]) = batch_size

\* C3 (as claimed): once a pass has completed, row i of its matrix is the
\* provider's output for image i, for every i in 0..N-1.
C3_RowsAligned ==
    PassComplete =>
        \A i \in 0..(data_n - 1) :
            /\ i \in DOMAIN embeddings
            /\ embeddings[i] = Emb(Image(pass, i))
\* ==== claims about the evaluation ============================================
Evaluating == proc \in {"calculate_roc", "calculate_val"}

\* the set of values of an index array
Range(a) == {a[i] : i \in DOMAIN a}

AllIndices == 0..(nrof_pairs - 1)

\* C4: for n >= k, LFold.split yields, when k > 1, exactly k folds whose test
\* sets are pairwise disjoint and cover 0..n-1, each train set being the
\* complement of its test set; when k <= 1 it yields exactly one fold whose
\* train and test sets are both 0..n-1.  The loop of a completed call has
\* consumed exactly these folds.
C4_FoldCoverage ==
    (Evaluating /\ nrof_pairs >= nrof_folds) =>
        LET F == Folds.folds
            want == IF nrof_folds > 1 THEN nrof_folds ELSE 1
        IN  /\ ~Folds.raises
            /\ DOMAIN F = 0..(want - 1)
            /\ \A i \in DOMAIN F :
                 /\ len(F[i].test_set) = Cardinality(Range(F[i].test_set))
                 /\ len(F[i].train_set) = Cardinality(Range(F[i].train_set))
            /\ nrof_folds > 1 =>
                 /\ \A i, j \in DOMAIN F :
                      i # j => Range(F[i].test_set) \cap Range(F[j].test_set) = {}
                 /\ UNION {Range(F[i].test_set) : i \in DOMAIN F} = AllIndices
                 /\ \A i \in DOMAIN F :
                      Range(F[i].train_set) = AllIndices \ Range(F[i].test_set)
            /\ nrof_folds <= 1 =>
                 /\ Range(F[0].test_set) = AllIndices
                 /\ Range(F[0].train_set) = AllIndices
            /\ (pc = "returned" /\ nrof_folds >= 1) =>
                 /\ Len(fold_log) = want
                 /\ \A i \in 1..want :
                      /\ fold_log[i].test_set = F[i - 1].test_set
                      /\ fold_log[i].train_set = F[i - 1].train_set

\* a completed call over uneven folds (n not a multiple of k)
C4_Witness ==
    /\ proc = "calculate_roc" /\ pc = "returned"
    /\ nrof_folds > 1
    /\ nrof_pairs % nrof_folds # 0
    /\ Len(fold_log) = nrof_folds

\* C5: with fewer pairs than folds (k > 1) the splitter raises: the loop of
\* calculate_roc / calculate_val consumes no fold and the call returns nothing;
\* and no fold the splitter ever yields has an empty train or test set.
C5_TooManyFolds ==
    Evaluating =>
        /\ (nrof_folds > 1 /\ nrof_pairs < nrof_folds) =>
              /\ Folds.raises
              /\ fold_log = <<>>
              /\ fold_idx = 0
              /\ result = None
              /\ pc \in {"start", "folds", "ValueError"}
        /\ ~Folds.raises =>
              \A i \in DOMAIN Folds.folds :
                  /\ len(Folds.folds[i].train_set) > 0
                  /\ len(Folds.folds[i].test_set) > 0

\* calculate_val has raised on a fold count above the pair count
C5_Witness ==
    /\ proc = "calculate_val" /\ pc = "ValueError"
    /\ nrof_folds > 1 /\ nrof_pairs < nrof_folds

\* the confusion counts under the strict rule, counted pair by pair
Below(i, threshold) == dist[i] * threshold.den < threshold.num
TP(S, threshold) == Cardinality({i \in S : Below(i, threshold) /\ actual_issame[i]})
FP(S, threshold) == Cardinality({i \in S : Below(i, threshold) /\ ~actual_issame[i]})
TN(S, threshold) == Cardinality({i \in S : ~Below(i, threshold) /\ ~actual_issame[i]})
FN(S, threshold) == Cardinality({i \in S : ~Below(i, threshold) /\ actual_issame[i]})

\* r is the rate a / (a + b), or 0 when a + b = 0
IsRate(r, a, b) ==
    IF a + b = 0 THEN r.num = 0 ELSE r.num * (a + b) = a * r.den

\* C6: for every grid threshold, calculate_accuracy returns tpr = TP/(TP+FN)
\* and fpr = FP/(FP+TN) under 'same iff distance < threshold', a rate being 0
\* when its denominator is 0: on the whole pair set, and in every row of
\* tprs / fprs that calculate_roc has written from a fold's test set.
C6_Rates ==
    (proc = "calculate_roc" /\ pc # "start" /\ nrof_folds >= 0) =>
        /\ \A t \in DOMAIN thresholds :
             LET th == Rat(thresholds[t], 1)
                 r == calculate_accuracy(th, dist, actual_issame)
             IN  /\ IsRate(r.tpr, TP(AllIndices, th), FN(AllIndices, th))
                 /\ IsRate(r.fpr, FP(AllIndices, th), TN(AllIndices, th))
        /\ \A k \in 1..Len(fold_log) : \A t \in DOMAIN thresholds :
             LET th == Rat(thresholds[t], 1)
                 S == Range(fold_log[k].test_set)
             IN  /\ IsRate(tprs[k - 1][t], TP(S, th), FN(S, th))
                 /\ IsRate(fprs[k - 1][t], FP(S, th), TN(S, th))

\* a fold written from a test set without same pairs, one pair lying exactly
\* on a grid threshold
C6_Witness ==
    /\ proc = "calculate_roc" /\ Len(fold_log) >= 1
    /\ \A i \in Range(fold_log[1].test_set) : ~actual_issame[i]
    /\ \E i \in Range(fold_log[1].test_set) : \E t \in DOMAIN thresholds :
          dist[i] = thresholds[t]
    /\ \A t \in DOMAIN thresholds : tprs[0][t] = Zero

\* C7 (as claimed): on labels that are all 'same' calculate_val_far does not
\* divide by zero and returns FAR = 0, and calculate_val never fails with a
\* division by zero on such a pair set.
C7_AllSameNoZeroDivision ==
    (/\ proc = "calculate_val" /\ pc # "start" /\ nrof_folds >= 0
     /\ \A i \in DOMAIN actual_issame : actual_issame[i]) =>
        /\ pc # "ZeroDivisionError"
        /\ \A t \in DOMAIN thresholds :
             LET r == calculate_val_far(Rat(thresholds[t], 1), dist, actual_issame)
             IN  ~r.raises /\ r.far = Zero

\* number of pairs of S classified correctly at grid threshold t
Correct(S, t) == TP(S, Rat(thresholds[t], 1)) + TN(S, Rat(thresholds[t], 1))

\* b is the lowest grid index attaining the maximum training accuracy on S
IsFirstBest(b, S) ==
    /\ b \in DOMAIN thresholds
    /\ \A t \in DOMAIN thresholds : Correct(S, t) <= Correct(S, b)
    /\ \A t \in DOMAIN thresholds : t < b => Correct(S, t) < Correct(S, b)

\* C8: in every fold calculate_roc has completed, the selected threshold is
\* the lowest-index grid threshold attaining the maximum accuracy on the
\* fold's training indices, and the accuracy recorded for the fold is the
\* accuracy on its test indices at that threshold.
C8_BestThreshold ==
    proc = "calculate_roc" =>
        \A k \in 1..Len(fold_log) :
            LET b == fold_log[k].best_threshold_index
                test == Range(fold_log[k].test_set)
            IN  /\ IsFirstBest(b, Range(fold_log[k].train_set))
                /\ accuracy[k - 1].num * Cardinality(test) = Correct(test, b) * accuracy[k - 1].den

\* a held-out fold (train # test) where several thresholds tie for the best
\* training accuracy and the selected one is not the last of them
C8_Witness ==
    /\ proc = "calculate_roc" /\ Len(fold_log) >= 1 /\ nrof_folds > 1
    /\ \E t \in DOMAIN thresholds :
          /\ t > fold_log[1].best_threshold_index
          /\ Correct(Range(fold_log[1].train_set), t)
               = Correct(Range(fold_log[1].train_set), fold_log[1].best_threshold_index)

\* C9 (as claimed): in Scenario A the threshold selected on the training
\* partition is 3 or 4 and the accuracy recorded for the single fold is 1.0.
C9_ScenarioA_Claimed ==
    (proc = "calculate_roc" /\ IsScenarioA /\ Len(fold_log) = 1) =>
        /\ thresholds[fold_log[1].best_threshold_index] \in {30, 40}
        /\ accuracy[0] = One

\* C9 (amended): in Scenario A the threshold selected is 1 -- the lowest of the
\* grid thresholds 1, 2, 3 that all reach training accuracy 1.0, threshold 4
\* reaching only 0.5 -- and the accuracy recorded for the single fold is 1.0.
C9_ScenarioA ==
    (proc = "calculate_roc" /\ IsScenarioA /\ Len(fold_log) = 1) =>
        /\ thresholds[fold_log[1].best_threshold_index] = 10
        /\ fold_log[1].acc_train = Arr(<<Rat(1, 2), One, One, One, Rat(1, 2)>>)
        /\ accuracy[0] = One
        /\ pc = "returned" => result.accuracy = Arr(<<One>>)

C9_Witness == proc = "calculate_roc" /\ IsScenarioA /\ pc = "returned"

\* C10 (as claimed): every fold of calculate_val (fold count >= 1) whose
\* maximum training FAR is below the target takes threshold 0.0, raises no
\* error and records test VAL = 0 and test FAR = 0; a fold whose maximum
\* training FAR reaches the target never takes the fallback.
C10_Fallback ==
    (proc = "calculate_val" /\ nrof_folds >= 1) =>
        \A k \in 1..Len(fold_log) :
            IF RLess(np_max(fold_log[k].far_train), far_target)
            THEN /\ fold_log[k].fallback
                 /\ fold_log[k].threshold = Zero
                 /\ k <= fold_idx
                 /\ val[k - 1] = Zero
                 /\ far[k - 1] = Zero
            ELSE ~fold_log[k].fallback
\* ==== claims about face_eval and provider failures ===========================
\* the named datasets whose file exists, in the order named
ExistingNames == SelectSeq(target, LAMBDA name : path_exists(name))

\* C11 (as claimed): when face_eval ends -- the provider and the metric
\* computation taken not to fail, every dataset holding at least one full
\* batch -- every named dataset whose file exists has been evaluated and
\* reported exactly once, in the order named, the missing ones skipped.
C11_EachExistingReported ==
    (/\ target # <<>>
     /\ \A name \in DOMAIN files : files[name] >= batch_size
     /\ pc \in {"done", "ValueError", "AssertionError"}) =>
        reports = ExistingNames

\* C12: once the provider has raised during a batch of test(), nothing else
\* happens: the batch is not called again, no further batch is submitted, the
\* pass is not stored, test() returns no result and face_eval reports none.
C12_ProviderFailurePropagates ==
    [][pc = "ProviderError" => UNCHANGED vars]_vars

\* the provider has raised on the second batch of the second dataset's pass,
\* after an earlier dataset was reported
C12_Witness ==
    /\ pc = "ProviderError" /\ proc = "test" /\ caller = "face_eval"
    /\ Len(calls) = 2
    /\ Len(reports) = 1
    /\ Len(ver_list) = 2
\* ==== claims about thresholds, degenerate folds and the mean curves ==========
\* a is non-decreasing along the grid
NonDecreasing(a) ==
    \A t1, t2 \in DOMAIN a : t1 <= t2 => RLeq(a[t1], a[t2])

\* C13: for fixed distances the set of pairs predicted 'same' (distance <
\* threshold) only grows with the threshold, a pair whose distance equals the
\* threshold is predicted 'different', and so the rates calculate_accuracy and
\* calculate_val_far return, and the rows the loops record, are non-decreasing
\* along the ascending grid.
C13_MonotoneInThreshold ==
    (Evaluating /\ pc # "start" /\ nrof_folds >= 0) =>
        /\ \A t1, t2 \in DOMAIN thresholds :
             thresholds[t1] <= thresholds[t2] =>
               LET th1 == Rat(thresholds[t1], 1)
                   th2 == Rat(thresholds[t2], 1)
                   p1 == np_less(dist, th1)
                   p2 == np_less(dist, th2)
                   a1 == calculate_accuracy(th1, dist, actual_issame)
                   a2 == calculate_accuracy(th2, dist, actual_issame)
                   v1 == calculate_val_far(th1, dist, actual_issame)
                   v2 == calculate_val_far(th2, dist, actual_issame)
               IN  /\ \A i \in DOMAIN dist : p1[i] => p2[i]
                   /\ np_sum(p1) <= np_sum(p2)
                   /\ \A i \in DOMAIN dist : dist[i] = thresholds[t1] => ~p1[i]
                   /\ RLeq(a1.tpr, a2.tpr) /\ RLeq(a1.fpr, a2.fpr)
                   /\ ~v1.raises => (RLeq(v1.val, v2.val) /\ RLeq(v1.far, v2.far))
        /\ \A k \in 1..Len(fold_log) :
             IF proc = "calculate_roc"
             THEN NonDecreasing(fold_log[k].tprs) /\ NonDecreasing(fold_log[k].fprs)
             ELSE NonDecreasing(fold_log[k].far_train)

\* a recorded fold, a pair lying exactly on a grid threshold, and a step of
\* the grid that adds pairs to the predicted-same set
C13_Witness ==
    /\ proc = "calculate_roc" /\ Len(fold_log) >= 1
    /\ \E i \in DOMAIN dist : \E t \in DOMAIN thresholds : dist[i] = thresholds[t]
    /\ \E t1, t2 \in DOMAIN thresholds :
          /\ t1 < t2
          /\ np_sum(np_less(dist, Rat(thresholds[t1], 1)))
               < np_sum(np_less(dist, Rat(thresholds[t2], 1)))

\* C14 (as claimed, for the fold counts 0 and 1): calculate_roc completes in
\* the degenerate mode: it raises nothing, processes exactly one fold whose
\* train and test sets are the full index set, and returns one mean TPR/FPR
\* curve and one accuracy, the maximum accuracy over the grid on the full data.
C14_DegenerateMode ==
    (proc = "calculate_roc" /\ nrof_folds \in {0, 1}) =>
        /\ pc \notin {"IndexError", "ValueError"}
        /\ pc = "returned" =>
             /\ Len(fold_log) = 1
             /\ Range(fold_log[1].train_set) = AllIndices
             /\ Range(fold_log[1].test_set) = AllIndices
             /\ DOMAIN result.tpr = DOMAIN thresholds
             /\ DOMAIN result.fpr = DOMAIN thresholds
             /\ DOMAIN result.accuracy = {0}
             /\ \A t \in DOMAIN thresholds :
                  Correct(AllIndices, t) * result.accuracy[0].den
                    <= result.accuracy[0].num * nrof_pairs
             /\ \E t \in DOMAIN thresholds :
                  Correct(AllIndices, t) * result.accuracy[0].den
                    = result.accuracy[0].num * nrof_pairs

\* the rate a / (a + b), 0 when a + b = 0
RateOf(a, b) == IF a + b = 0 THEN Zero ELSE Rat(a, a + b)

\* the arithmetic mean of r(1), ..., r(n)
RECURSIVE SumTo(_, _)
SumTo(r(_), n) == IF n = 0 THEN Zero ELSE RAdd(SumTo(r, n - 1), r(n))
MeanTo(r(_), n) == RDiv(SumTo(r, n), Rat(n, 1))

\* C15: for 1 <= nFolds <= number of pairs, calculate_roc returns mean TPR and
\* FPR curves of the grid's length whose entry j is the arithmetic mean, over
\* all folds, of the TPR (FPR) on the fold's test indices at grid threshold j;
\* every fold has written exactly one row and no row is left unwritten.
C15_MeanCurves ==
    (/\ proc = "calculate_roc" /\ pc = "returned"
     /\ nrof_folds >= 1 /\ nrof_folds <= nrof_pairs) =>
        LET folds == IF nrof_folds > 1 THEN nrof_folds ELSE 1
            S(k) == Range(Folds.folds[k - 1].test_set)
        IN  /\ Len(fold_log) = nrof_folds
            /\ DOMAIN tprs = 0..(folds - 1)
            /\ DOMAIN fprs = 0..(folds - 1)
            /\ DOMAIN result.tpr = DOMAIN thresholds
            /\ DOMAIN result.fpr = DOMAIN thresholds
            /\ \A j \in DOMAIN thresholds :
                 LET th == Rat(thresholds[j], 1)
                     tprOf(k) == RateOf(TP(S(k), th), FN(S(k), th))
                     fprOf(k) == RateOf(FP(S(k), th), TN(S(k), th))
                 IN  /\ result.tpr[j] = MeanTo(tprOf, folds)
                     /\ result.fpr[j] = MeanTo(fprOf, folds)

\* several folds whose TPRs at some threshold differ, so the mean is neither
\* of them
C15_Witness ==
    /\ proc = "calculate_roc" /\ pc = "returned" /\ nrof_folds >= 2
    /\ \E j \in DOMAIN thresholds :
          /\ tprs[0][j] # tprs[1][j]
          /\ result.tpr[j] \notin {Zero, One}

\* number of different-identity pairs of S
NDiff(S) == Cardinality({i \in S : ~actual_issame[i]})

\* C16: in calculate_val, on an ascending grid that starts at 0, the training
\* FAR of every fold is 0 at the first threshold and non-decreasing along the
\* grid, so whenever the interpolation branch is taken the target FAR lies
\* within [min training FAR, max training FAR]; the FAR values of such a fold
\* may repeat (C16_Witness).
C16_InterpolationInRange ==
    (proc = "calculate_val" /\ pc # "start" /\ nrof_folds >= 0 /\ ~Folds.raises) =>
        /\ \A i \in DOMAIN Folds.folds :
             LET ft == FarTrain(Folds.folds[i].train_set)
                 x == ft.far_train
             IN  ~ft.raises =>
                   /\ x[0] = Zero
                   /\ NonDecreasing(x)
                   /\ (\E t \in DOMAIN x : RLeq(far_target, x[t])) =>
                        \E t \in DOMAIN x : RLeq(x[t], far_target)
                   /\ \A sel \in SelectThreshold(x) :
                        ~sel.fallback <=> (\E t \in DOMAIN x : RLeq(far_target, x[t]))
        /\ \A k \in 1..Len(fold_log) :
             LET x == fold_log[k].far_train
                 S == Range(fold_log[k].train_set)
             IN  /\ \A t \in DOMAIN thresholds :
                      x[t].num * NDiff(S) = FP(S, Rat(thresholds[t], 1)) * x[t].den
                 /\ ~fold_log[k].fallback =>
                      /\ \E t \in DOMAIN x : RLeq(x[t], far_target)
                      /\ \E t \in DOMAIN x : RLeq(far_target, x[t])

\* a fold that took the interpolation branch on FAR values that repeat
C16_Witness ==
    /\ proc = "calculate_val" /\ Len(fold_log) >= 1
    /\ ~fold_log[1].fallback
    /\ \E t1, t2 \in DOMAIN thresholds :
          t1 # t2 /\ fold_log[1].far_train[t1] = fold_log[1].far_train[t2]
====
